---- MODULE Spec2Model ----
(***************************************************************************)
(* Model of python/anvill/ida.py: the conversion of IDA `tinfo_t` types    *)
(* into anvill `Type` objects (_convert_ida_type, get_type) and the weak   *)
(* registry of `Function` objects keyed by start address (get_function).   *)
(***************************************************************************)
EXTENDS Integers, Sequences, FiniteSets, TLC

VARIABLES
  fn,        \* the tinfo_t behind the handle "fn": a function prototype of the type database
  funcs,     \* the func_t regions of the database: records [start_ea, end_ea)
  tinfo,     \* start_ea -> handle that get_tinfo/guess_tinfo yields there, or NoTinfo
  registry,  \* _FUNCTIONS: start address -> Function object (weak values)
  held,      \* the Function objects some caller still references
  last,      \* outcome of the latest get_function call
  conv       \* a caller-owned `cache` dict, the Type objects built with it, and the calls made

vars == <<fn, funcs, tinfo, registry, held, last, conv>>

---------------------------------------------------------------------------
(* Bounds of the model.                                                    *)

\* addresses are 0 .. MaxAddr
MaxAddr == 2
\* a function prototype has at most MaxParams parameters
MaxParams == 2
\* nesting of _convert_ida_type frames the interpreter allows
MaxDepth == 8

Addrs == 0 .. MaxAddr
Archs == {"amd64", "x86"}

---------------------------------------------------------------------------
(* The foreign type database: what the tinfo_t predicates and accessors    *)
(* used by _convert_ida_type answer for each type handle.                  *)

TBase ==
  [kind |-> "unknown", sub |-> "", width |-> 0, signed |-> FALSE, elem |-> "",
   members |-> <<>>, findable |-> 0, count |-> 0, ret |-> "",
   vararg |-> FALSE, purging |-> FALSE, purged |-> 0]

TInt(w, s) == [TBase EXCEPT !.kind = "int", !.width = w, !.signed = s]
TFloat(sub, w) == [TBase EXCEPT !.kind = "float", !.sub = sub, !.width = w]
TPtr(e) == [TBase EXCEPT !.kind = "ptr", !.elem = e]
TArray(e, n) == [TBase EXCEPT !.kind = "array", !.elem = e, !.count = n]
TUdt(k, ms, found) == [TBase EXCEPT !.kind = k, !.members = ms, !.findable = found]
TFunc(r, ps, va, pg, nb) ==
  [TBase EXCEPT !.kind = "func", !.ret = r, !.members = ps, !.vararg = va,
                !.purging = pg, !.purged = nb]

TypeDB ==
  [h \in {"void", "empty", "bool", "u128", "i128", "u64", "i64", "u32", "i32",
          "u16", "i16", "uchar", "char", "float", "double", "ldouble",
          "complex", "int24", "half", "unknown", "node", "pnode", "arr",
          "vec", "uni", "enum", "td", "pcplx", "scplx", "acplx", "tdc",
          "partial", "pfn"} |->
     CASE h = "void" -> [TBase EXCEPT !.kind = "void"]
       [] h = "empty" -> [TBase EXCEPT !.kind = "empty"]
       [] h = "bool" -> [TBase EXCEPT !.kind = "bool"]
       [] h = "u128" -> TInt(16, FALSE)
       [] h = "i128" -> TInt(16, TRUE)
       [] h = "u64" -> TInt(8, FALSE)
       [] h = "i64" -> TInt(8, TRUE)
       [] h = "u32" -> TInt(4, FALSE)
       [] h = "i32" -> TInt(4, TRUE)
       [] h = "u16" -> TInt(2, FALSE)
       [] h = "i16" -> TInt(2, TRUE)
       [] h = "uchar" -> TInt(1, FALSE)
       [] h = "char" -> TInt(1, TRUE)
       [] h = "int24" -> TInt(3, TRUE)
       [] h = "float" -> TFloat("float", 4)
       [] h = "double" -> TFloat("double", 8)
       [] h = "ldouble" -> TFloat("ldouble", 10)
       [] h = "half" -> TFloat("half", 2)
       [] h = "complex" -> [TBase EXCEPT !.kind = "complex"]
       [] h = "unknown" -> TBase
       \* struct node { struct node *next; int value; }
       [] h = "node" -> TUdt("struct", <<"pnode", "i32">>, 2)
       [] h = "pnode" -> TPtr("node")
       [] h = "arr" -> TArray("i32", 4)
       [] h = "vec" -> [TBase EXCEPT !.kind = "vector", !.width = 16]
       [] h = "uni" -> TUdt("union", <<"float", "pnode">>, 2)
       [] h = "enum" -> [TBase EXCEPT !.kind = "enum", !.elem = "u32"]
       [] h = "td" -> [TBase EXCEPT !.kind = "typedef", !.elem = "node"]
       [] h = "pcplx" -> TPtr("complex")
       [] h = "scplx" -> TUdt("struct", <<"i32", "complex">>, 2)
       [] h = "acplx" -> TArray("complex", 2)
       [] h = "tdc" -> [TBase EXCEPT !.kind = "typedef", !.elem = "pcplx"]
       \* find_udt_member stops answering after the first member
       [] h = "partial" -> TUdt("struct", <<"char", "complex", "i32">>, 1)
       [] h = "pfn" -> TPtr("fn")]

Handles == DOMAIN TypeDB \cup {"fn"}

\* the tinfo_t a handle denotes
TypeOf(ty) == IF ty = "fn" THEN fn ELSE TypeDB[ty]

---------------------------------------------------------------------------
(* The Type objects of .type that _convert_ida_type constructs. A Type     *)
(* object is a heap cell; its identity is its index in the heap.           *)

NBase ==
  [kind |-> "Void", width |-> 0, signed |-> FALSE, elems |-> <<>>, ret |-> 0,
   count |-> 0, vararg |-> FALSE, popped_set |-> FALSE, popped |-> 0]

VoidType == NBase
BoolType == [NBase EXCEPT !.kind = "Bool"]
IntegerType(w, s) == [NBase EXCEPT !.kind = "Integer", !.width = w, !.signed = s]
FloatingPointType(w) == [NBase EXCEPT !.kind = "FloatingPoint", !.width = w]
PointerType == [NBase EXCEPT !.kind = "Pointer"]
FunctionType == [NBase EXCEPT !.kind = "Function"]
ArrayType == [NBase EXCEPT !.kind = "Array"]
VectorType == [NBase EXCEPT !.kind = "Vector"]
StructureType == [NBase EXCEPT !.kind = "Structure"]
UnionType == [NBase EXCEPT !.kind = "Union"]
EnumType == [NBase EXCEPT !.kind = "Enum"]
TypedefType == [NBase EXCEPT !.kind = "Typedef"]

\* A conversion in progress: the Type objects built so far, the cache dict,
\* how the call ended, the object returned (0: none) and the handle an
\* UnhandledTypeException carries.
NoCache == [h \in {} |-> 0]
NewSession ==
  [heap |-> <<>>, cache |-> NoCache, status |-> "ok", ret |-> 0, bad |-> ""]

\* `X()` for a Type class X: a new object, which becomes the value in hand
Alloc(st, node) ==
  [st EXCEPT !.heap = Append(@, node), !.ret = Len(st.heap) + 1]

\* raise UnhandledTypeException(..., ty)
Raise(st, ty) == [st EXCEPT !.status = "UnhandledType", !.ret = 0, !.bad = ty]

CacheInsert_Skip(st, ty) == st

\* cache[ty] = ret
CacheInsert(st, ty) == [st EXCEPT !.cache = (ty :> st.ret) @@ @]

ConvertInteger_SignSwapped(st, ty) ==
  LET T == TypeOf(ty) IN
  IF T.width \in {1, 2, 4, 8, 16}
  THEN Alloc(st, IntegerType(T.width, ~T.signed))
  ELSE Raise(st, ty)

\* the is_integral() branch: first predicate that answers true wins
ConvertInteger(st, ty) ==
  LET T == TypeOf(ty)
      is_uint128 == T.width = 16 /\ ~T.signed
      is_int128 == T.width = 16 /\ T.signed
      is_uint64 == T.width = 8 /\ ~T.signed
      is_int64 == T.width = 8 /\ T.signed
      is_uint32 == T.width = 4 /\ ~T.signed
      is_int32 == T.width = 4 /\ T.signed
      is_uint16 == T.width = 2 /\ ~T.signed
      is_int16 == T.width = 2 /\ T.signed
      is_uchar == T.width = 1 /\ ~T.signed
      is_char == T.width = 1 /\ T.signed
  IN CASE is_uint128 -> Alloc(st, IntegerType(16, FALSE))
       [] is_int128 -> Alloc(st, IntegerType(16, TRUE))
       [] is_uint64 -> Alloc(st, IntegerType(8, FALSE))
       [] is_int64 -> Alloc(st, IntegerType(8, TRUE))
       [] is_uint32 -> Alloc(st, IntegerType(4, FALSE))
       [] is_int32 -> Alloc(st, IntegerType(4, TRUE))
       [] is_uint16 -> Alloc(st, IntegerType(2, FALSE))
       [] is_int16 -> Alloc(st, IntegerType(2, TRUE))
       [] is_uchar -> Alloc(st, IntegerType(1, FALSE))
       [] is_char -> Alloc(st, IntegerType(1, TRUE))
       [] OTHER -> Raise(st, ty)

\* the is_floating() branch
ConvertFloating(st, ty) ==
  LET T == TypeOf(ty) IN
  CASE T.sub = "ldouble" -> Alloc(st, FloatingPointType(T.width))
    [] T.sub = "double" -> Alloc(st, FloatingPointType(8))
    [] T.sub = "float" -> Alloc(st, FloatingPointType(4))
    [] OTHER -> Raise(st, ty)

ConvertComplex_AsFloatPair(st, ty) ==
  CacheInsert(Alloc(st, FloatingPointType(16)), ty)

\* the is_complex() branch
ConvertComplex(st, ty) == Raise(st, ty)

SetCallingConvention_AlwaysPurged(node, T) ==
  [node EXCEPT !.vararg = T.vararg, !.popped_set = TRUE, !.popped = T.purged]

\* set_is_vararg() if is_vararg_cc(); set_num_bytes_popped_off_stack(
\* calc_purged_bytes()) if is_purging_cc()
SetCallingConvention(node, T) ==
  [node EXCEPT !.vararg = T.vararg,
               !.popped_set = T.purging,
               !.popped = IF T.purging THEN T.purged ELSE 0]

\* the members `while i < max_i` reaches before find_udt_member fails
UdtMembers(T) ==
  SubSeq(T.members, 1,
         IF T.findable < Len(T.members) THEN T.findable ELSE Len(T.members))

RECURSIVE convert_ida_type(_, _, _), ConvertEach(_, _, _, _)

\* _convert_ida_type(ty, cache), `depth` frames below the interpreter's limit
convert_ida_type(ty, st, depth) ==
  IF depth = 0 THEN [st EXCEPT !.status = "RecursionError", !.ret = 0]
  ELSE IF ty \in DOMAIN st.cache THEN [st EXCEPT !.ret = st.cache[ty]]
  ELSE
    LET T == TypeOf(ty)
        \* a node with one child: element, underlying or pointed-to type
        OneChild(node, child, n) ==
          LET s1 == CacheInsert(Alloc(st, node), ty)
              me == s1.ret
              s2 == convert_ida_type(child, s1, depth - 1)
          IN IF s2.status # "ok" THEN s2
             ELSE [s2 EXCEPT !.heap[me].elems = <<s2.ret>>,
                             !.heap[me].count = n, !.ret = me]
    IN
    CASE T.kind \in {"empty", "void"} -> Alloc(st, VoidType)
      [] T.kind = "ptr" -> OneChild(PointerType, T.elem, 0)
      [] T.kind = "func" ->
           LET s1 == CacheInsert(Alloc(st, FunctionType), ty)
               me == s1.ret
               s2 == convert_ida_type(T.ret, s1, depth - 1)
               s3 == ConvertEach(T.members,
                                 [s2 EXCEPT !.heap[me].ret = s2.ret], depth - 1, me)
           IN IF s2.status # "ok" THEN s2
              ELSE IF s3.status # "ok" THEN s3
              ELSE [s3 EXCEPT !.heap[me] = SetCallingConvention(@, T),
                              !.ret = me]
      [] T.kind = "array" -> OneChild(ArrayType, T.elem, T.count)
      [] T.kind = "paf_other" -> Raise(st, ty)
      [] T.kind = "vector" ->
           LET s1 == CacheInsert(Alloc(st, VectorType), ty)
               me == s1.ret
               s2 == Alloc(s1, IntegerType(1, FALSE))
           IN [s2 EXCEPT !.heap[me].elems = <<s2.ret>>,
                         !.heap[me].count = T.width, !.ret = me]
      [] T.kind \in {"struct", "union"} ->
           LET s1 == CacheInsert(
                       Alloc(st, IF T.kind = "struct" THEN StructureType
                                 ELSE UnionType), ty)
               me == s1.ret
               s2 == ConvertEach(UdtMembers(T), s1, depth - 1, me)
           IN IF s2.status # "ok" THEN s2 ELSE [s2 EXCEPT !.ret = me]
      [] T.kind = "enum" -> OneChild(EnumType, T.elem, 0)
      [] T.kind = "sue_other" -> Raise(st, ty)
      [] T.kind = "bool" -> Alloc(st, BoolType)
      [] T.kind = "int" -> ConvertInteger(st, ty)
      [] T.kind = "float" -> ConvertFloating(st, ty)
      [] T.kind = "complex" -> ConvertComplex(st, ty)
      [] T.kind = "typedef" -> OneChild(TypedefType, T.elem, 0)
      [] OTHER -> Raise(st, ty)

\* the loop of one frame over a run of children: each is converted and
\* added to the object `me` (add_parameter_type, add_element_type)
ConvertEach(tys, st, depth, me) ==
  IF tys = <<>> THEN st
  ELSE LET s1 == convert_ida_type(Head(tys), st, depth) IN
       IF s1.status # "ok" THEN s1
       ELSE ConvertEach(Tail(tys),
                        [s1 EXCEPT !.heap[me].elems = Append(@, s1.ret)],
                        depth, me)

---------------------------------------------------------------------------
(* get_type and the Function registry.                                     *)

NoTinfo == "<none>"
NoRegion == [start_ea |-> -1, end_ea |-> -1]

\* what get_tinfo, or else guess_tinfo, leaves in `tif` for an address
TinfoAt(ea) == IF ea \in DOMAIN tinfo THEN tinfo[ea] ELSE NoTinfo

\* get_type(ty) for an integer `ty` (an address)
get_type(ea) ==
  IF TinfoAt(ea) # NoTinfo
  THEN convert_ida_type(TinfoAt(ea), NewSession, MaxDepth)
  ELSE IF ea = 0 THEN Alloc(NewSession, VoidType)
  ELSE Raise(NewSession, NoTinfo)

\* ida_funcs.func_contains
func_contains(f, ea) == f.start_ea <= ea /\ ea < f.end_ea

\* ida_funcs.get_func: the function that owns the address, if any
get_func(ea) ==
  IF \E f \in funcs : func_contains(f, ea)
  THEN CHOOSE f \in funcs : func_contains(f, ea)
  ELSE NoRegion

\* ida_funcs.get_prev_func: the last function that starts before the address
get_prev_func(ea) ==
  IF \E f \in funcs : f.start_ea < ea
  THEN CHOOSE f \in funcs :
         /\ f.start_ea < ea
         /\ \A g \in funcs : g.start_ea < ea => g.start_ea <= f.start_ea
  ELSE NoRegion

\* lines 300-302: get_func, else get_prev_func
LocateFunc(ea) ==
  IF get_func(ea) # NoRegion THEN get_func(ea) ELSE get_prev_func(ea)

StartAddress_Requested(ida_func, address) == address

\* address = ida_func.start_ea
StartAddress(ida_func, address) == ida_func.start_ea

WrapTypeError_Unwrapped(status) == status

\* except UnhandledTypeException: raise InvalidFunction
WrapTypeError(status) ==
  IF status = "UnhandledType" THEN "InvalidFunction" ELSE status

RegistryHas_Never(reg, address) == FALSE

\* address in _FUNCTIONS
RegistryHas(reg, address) == address \in DOMAIN reg

NoFunction ==
  [id |-> 0, arch |-> "", address |-> -1,
   func_type |-> [heap |-> <<>>, root |-> 0]]

IDAFunction_DetectedArch(id, arch, address, func_type) ==
  [id |-> id, arch |-> "amd64", address |-> address, func_type |-> func_type]

\* IDAFunction(arch, address, func_type, ida_func): a new object `id`
IDAFunction(id, arch, address, func_type) ==
  [id |-> id, arch |-> arch, address |-> address, func_type |-> func_type]

\* the Function objects that exist: referenced by a caller or by the registry
Live == held \cup {registry[a] : a \in DOMAIN registry}

\* the identity of a newly allocated object: one no live object has
NewId == CHOOSE i \in 1 .. Cardinality(Live) + 1 : \A f \in Live : f.id # i

NoCall ==
  [arch |-> "", address |-> -1, status |-> "none", reason |-> "",
   func |-> NoFunction, fresh |-> FALSE, washeld |-> FALSE,
   recreated |-> FALSE]

\* get_function(arch, address); the caller keeps the Function it gets.
\* `last` notes the call: whether the Function was constructed (fresh),
\* whether a caller still held it (washeld), and whether it replaces the
\* Function the call before returned for the same start (recreated).
GetFunction(arch, address) ==
  LET ida_func == LocateFunc(address) IN
  IF ida_func = NoRegion \/ ~func_contains(ida_func, address)
  THEN /\ last' = [NoCall EXCEPT !.arch = arch, !.address = address,
                                 !.status = "InvalidFunction",
                                 !.reason = "No function defined"]
       /\ UNCHANGED <<fn, funcs, tinfo, registry, held, conv>>
  ELSE
    LET start == StartAddress(ida_func, address)
        t == get_type(start)
    IN IF t.status # "ok"
       THEN /\ last' = [NoCall EXCEPT !.arch = arch, !.address = address,
                                      !.status = WrapTypeError(t.status),
                                      !.reason = "Could not assign type"]
            /\ UNCHANGED <<fn, funcs, tinfo, registry, held, conv>>
       ELSE IF RegistryHas(registry, start)
       THEN /\ last' = [NoCall EXCEPT !.arch = arch, !.address = address,
                                      !.status = "ok",
                                      !.func = registry[start],
                                      !.washeld = registry[start] \in held]
            /\ held' = held \cup {registry[start]}
            /\ UNCHANGED <<fn, funcs, tinfo, registry, conv>>
       ELSE LET func == IDAFunction(NewId, arch, start,
                                    [heap |-> t.heap, root |-> t.ret])
            IN /\ registry' = (start :> func) @@ registry
               /\ last' = [NoCall EXCEPT !.arch = arch, !.address = address,
                                         !.status = "ok", !.func = func,
                                         !.fresh = TRUE,
                                         !.recreated =
                                            /\ last.status = "ok"
                                            /\ last.func.address = start]
               /\ held' = held \cup {func}
               /\ UNCHANGED <<fn, funcs, tinfo, conv>>

\* a caller drops its references to a Function
Release(f) ==
  /\ f \in held
  /\ held' = held \ {f}
  /\ UNCHANGED <<fn, funcs, tinfo, registry, last, conv>>

Collectable_Never(f) == FALSE

\* weakref.WeakValueDictionary: the dict's own reference keeps nothing alive
Collectable(f) == f \notin held

\* an entry whose value nothing else references goes away
Purge(a) ==
  /\ a \in DOMAIN registry
  /\ Collectable(registry[a])
  /\ registry' = [b \in DOMAIN registry \ {a} |-> registry[b]]
  /\ UNCHANGED <<fn, funcs, tinfo, held, last, conv>>

---------------------------------------------------------------------------
(* Callers of the converter.                                               *)

NoConv == [heap |-> <<>>, cache |-> NoCache, calls |-> <<>>]

Outcome(ty, before, st) ==
  [ty |-> ty, status |-> st.status, ret |-> st.ret, bad |-> st.bad,
   before |-> DOMAIN before]

\* get_type(ty) for a tinfo_t: _convert_ida_type(ty, {})
GetType(ty) ==
  LET st == convert_ida_type(ty, NewSession, MaxDepth) IN
  /\ conv' = [heap |-> st.heap, cache |-> st.cache,
              calls |-> <<Outcome(ty, NoCache, st)>>]
  /\ UNCHANGED <<fn, funcs, tinfo, registry, held, last>>

\* _convert_ida_type(ty, cache) once more with the dict of the call before:
\* for the same type, or for one the dict now holds
ConvertAgain(ty) ==
  /\ Len(conv.calls) = 1
  /\ ty = conv.calls[1].ty \/ ty \in DOMAIN conv.cache
  /\ LET st == convert_ida_type(
                 ty, [NewSession EXCEPT !.heap = conv.heap,
                                        !.cache = conv.cache], MaxDepth)
     IN conv' = [heap |-> st.heap, cache |-> st.cache,
                 calls |-> Append(conv.calls, Outcome(ty, conv.cache, st))]
  /\ UNCHANGED <<fn, funcs, tinfo, registry, held, last>>

---------------------------------------------------------------------------
(* Specifications.                                                         *)

Regions ==
  {[start_ea |-> s, end_ea |-> e] : s \in Addrs, e \in 1 .. MaxAddr + 1}

Disjoint(f, g) == f.end_ea <= g.start_ea \/ g.end_ea <= f.start_ea

\* what the type database offers at a function's start
TinfoChoices == {NoTinfo, "fn", "pnode"}

RECURSIVE SeqsUpTo(_, _)
SeqsUpTo(S, n) ==
  IF n = 0 THEN {<<>>}
  ELSE SeqsUpTo(S, n - 1)
         \cup {Append(q, x) : q \in {r \in SeqsUpTo(S, n - 1) : Len(r) = n - 1},
                              x \in S}

Prototypes ==
  {TFunc(r, ps, va, pg, nb) :
     r \in {"void", "pnode"},
     ps \in SeqsUpTo({"i32", "pfn", "complex"}, MaxParams),
     va \in BOOLEAN, pg \in BOOLEAN, nb \in {4, 8}}

\* a loaded database with up to two functions, nothing resolved yet
Init ==
  /\ fn \in {TFunc("void", <<"pnode">>, FALSE, FALSE, 0),
             TFunc("i32", <<"complex">>, FALSE, FALSE, 0)}
  /\ \E f \in Regions, g \in Regions :
       /\ f.start_ea < f.end_ea /\ g.start_ea < g.end_ea
       /\ f = g \/ Disjoint(f, g)
       /\ funcs = {f, g}
  /\ tinfo \in [{f.start_ea : f \in funcs} -> TinfoChoices]
  /\ registry = [a \in {} |-> NoFunction]
  /\ held = {}
  /\ last = NoCall
  /\ conv = NoConv

Next ==
  \/ \E arch \in Archs, address \in Addrs : GetFunction(arch, address)
  \/ \E f \in held : Release(f)
  \/ \E a \in Addrs : Purge(a)

Spec == Init /\ [][Next]_vars

\* the type database alone: one prototype behind "fn", no functions
InitConv ==
  /\ fn \in Prototypes
  /\ funcs = {}
  /\ tinfo = [a \in {} |-> NoTinfo]
  /\ registry = [a \in {} |-> NoFunction]
  /\ held = {}
  /\ last = NoCall
  /\ conv = NoConv

NextConv ==
  \/ \E ty \in Handles : GetType(ty)
  \/ \E ty \in Handles : ConvertAgain(ty)

SpecConv == InitConv /\ [][NextConv]_vars

---------------------------------------------------------------------------
(* What the conversion of a foreign type has to look like, read off the    *)
(* type database alone.                                                    *)

\* the children of a foreign type the converter asks for
Children(ty) ==
  LET T == TypeOf(ty) IN
  CASE T.kind \in {"ptr", "array", "enum", "typedef"} -> {T.elem}
    [] T.kind = "func" -> {T.ret} \cup {T.members[i] : i \in DOMAIN T.members}
    [] T.kind \in {"struct", "union"} ->
         {T.members[i] : i \in {j \in DOMAIN T.members : j <= T.findable}}
    [] OTHER -> {}

\* a complex number lies on a path from ty through types not yet cached
RECURSIVE ReachesComplex(_, _, _)
ReachesComplex(ty, cached, k) ==
  /\ ty \notin cached
  /\ \/ TypeOf(ty).kind = "complex"
     \/ k > 0 /\ \E c \in Children(ty) : ReachesComplex(c, cached, k - 1)

\* object n of the heap is the Type for the foreign type ty, k levels deep
RECURSIVE Represents(_, _, _, _)
Represents(heap, n, ty, k) ==
  LET T == TypeOf(ty) IN
  /\ n \in DOMAIN heap
  /\ \/ k = 0
     \/ LET N == heap[n]
            One(kind) == /\ N.kind = kind
                         /\ Len(N.elems) = 1
                         /\ Represents(heap, N.elems[1], T.elem, k - 1)
        IN CASE T.kind \in {"void", "empty"} -> N = VoidType
             [] T.kind = "bool" -> N = BoolType
             [] T.kind = "int" -> N = IntegerType(T.width, T.signed)
             [] T.kind = "float" -> N = FloatingPointType(T.width)
             [] T.kind = "ptr" -> One("Pointer")
             [] T.kind = "array" -> One("Array") /\ N.count = T.count
             [] T.kind = "enum" -> One("Enum")
             [] T.kind = "typedef" -> One("Typedef")
             [] T.kind \in {"struct", "union"} ->
                  /\ N.kind = (IF T.kind = "struct" THEN "Structure" ELSE "Union")
                  /\ Len(N.elems) = Cardinality({j \in DOMAIN T.members : j <= T.findable})
                  /\ \A i \in DOMAIN N.elems :
                       Represents(heap, N.elems[i], T.members[i], k - 1)
             [] T.kind = "func" ->
                  /\ N.kind = "Function"
                  /\ Len(N.elems) = Len(T.members)
                  /\ \A i \in DOMAIN N.elems :
                       Represents(heap, N.elems[i], T.members[i], k - 1)
                  /\ Represents(heap, N.ret, T.ret, k - 1)
             [] OTHER -> FALSE

\* the primitive foreign types and the leaf each stands for
Primitives ==
  {"void", "bool", "u128", "i128", "u64", "i64", "u32", "i32", "u16", "i16",
   "uchar", "char", "float", "double", "ldouble"}

ExpectedLeaf(ty) ==
  CASE ty = "void" -> VoidType
    [] ty = "bool" -> BoolType
    [] ty = "u128" -> IntegerType(16, FALSE)
    [] ty = "i128" -> IntegerType(16, TRUE)
    [] ty = "u64" -> IntegerType(8, FALSE)
    [] ty = "i64" -> IntegerType(8, TRUE)
    [] ty = "u32" -> IntegerType(4, FALSE)
    [] ty = "i32" -> IntegerType(4, TRUE)
    [] ty = "u16" -> IntegerType(2, FALSE)
    [] ty = "i16" -> IntegerType(2, TRUE)
    [] ty = "uchar" -> IntegerType(1, FALSE)
    [] ty = "char" -> IntegerType(1, TRUE)
    [] ty = "float" -> FloatingPointType(4)
    [] ty = "double" -> FloatingPointType(8)
    [] ty = "ldouble" -> FloatingPointType(TypeDB["ldouble"].width)

\* the same type was converted twice with one cache
Twice == Len(conv.calls) = 2 /\ conv.calls[1].ty = conv.calls[2].ty

---------------------------------------------------------------------------
(* Claims about the converter, under SpecConv.                             *)

\* C3: converting the pointer to `struct node`, whose first member points
\* back to the struct, ends (no call runs out of frames), and gives a
\* Pointer whose element is a Structure whose first member is a Pointer
\* whose element is that same Structure object.
C3_CycleClosed ==
  \A i \in DOMAIN conv.calls :
    LET c == conv.calls[i] IN
    /\ c.status # "RecursionError"
    /\ c.ty = "pnode" =>
         /\ c.status = "ok"
         /\ c.ret \in DOMAIN conv.heap
         /\ conv.heap[c.ret].kind = "Pointer"
         /\ Len(conv.heap[c.ret].elems) = 1
         /\ LET s == conv.heap[c.ret].elems[1] IN
            /\ conv.heap[s].kind = "Structure"
            /\ Len(conv.heap[s].elems) = 2
            /\ conv.heap[conv.heap[s].elems[1]].kind = "Pointer"
            /\ conv.heap[conv.heap[s].elems[1]].elems = <<s>>

C3_Witness ==
  /\ Len(conv.calls) = 1
  /\ conv.calls[1].ty = "pnode"
  /\ conv.calls[1].status = "ok"
  /\ "node" \in DOMAIN conv.cache

\* C4 as stated: a primitive type converted twice with one cache gives, the
\* second time, the very object the first call returned.
C4_SameObject ==
  (Twice /\ conv.calls[1].ty \in Primitives) =>
    /\ conv.calls[2].status = "ok"
    /\ conv.calls[2].ret = conv.calls[1].ret

\* C4 amended: a primitive type converted twice with one cache gives each
\* time a leaf of exactly its kind, width and signedness; the second is a
\* new object equal to the first, and the type is never put in the cache.
C4_EqualLeaves ==
  (Twice /\ conv.calls[1].ty \in Primitives) =>
    LET c1 == conv.calls[1]
        c2 == conv.calls[2]
    IN /\ c1.status = "ok" /\ c2.status = "ok"
       /\ c1.ret # c2.ret
       /\ conv.heap[c1.ret] = ExpectedLeaf(c1.ty)
       /\ conv.heap[c2.ret] = ExpectedLeaf(c1.ty)
       /\ c1.ty \notin DOMAIN conv.cache

C4_Witness ==
  /\ Twice
  /\ conv.calls[1].ty = "u64"
  /\ conv.calls[2].status = "ok"

\* C5: when the prototype behind "fn" converts, the Function object has one
\* parameter per foreign parameter, each the conversion of the parameter at
\* that place, its return type is the conversion of the foreign return
\* type, it is variadic exactly when the convention is, and its popped
\* byte count is the purged byte count when the convention purges and is
\* not set otherwise.
C5_Prototype ==
  \A i \in DOMAIN conv.calls :
    (conv.calls[i].ty = "fn" /\ conv.calls[1].status = "ok") =>
      /\ conv.calls[i].status = "ok"
      /\ Represents(conv.heap, conv.calls[i].ret, "fn", 3)
      /\ LET F == conv.heap[conv.calls[i].ret] IN
         /\ F.kind = "Function"
         /\ Len(F.elems) = Len(fn.members)
         /\ F.vararg = fn.vararg
         /\ F.popped_set = fn.purging
         /\ fn.purging => F.popped = fn.purged

C5_Witness ==
  /\ Len(conv.calls) = 1
  /\ conv.calls[1].ty = "fn"
  /\ conv.calls[1].status = "ok"
  /\ Len(fn.members) = MaxParams
  /\ fn.vararg /\ fn.purging
  /\ conv.heap[conv.calls[1].ret].popped = fn.purged

\* C6: a conversion that reaches a complex number, at the top or below
\* pointers, arrays, prototypes, structs, unions or typedefs, ends with
\* UnhandledType and returns nothing, and the cache never has an entry for
\* a complex type.
C6_ComplexFails ==
  /\ \A ty \in DOMAIN conv.cache : TypeOf(ty).kind # "complex"
  /\ \A i \in DOMAIN conv.calls :
       LET c == conv.calls[i] IN
       ReachesComplex(c.ty, c.before, MaxDepth) =>
         c.status = "UnhandledType" /\ c.ret = 0

C6_Witness ==
  /\ Len(conv.calls) = 1
  /\ conv.calls[1].ty = "tdc"
  /\ conv.calls[1].status = "UnhandledType"
  /\ conv.calls[1].bad = "complex"
  /\ DOMAIN conv.cache = {"tdc", "pcplx"}

---------------------------------------------------------------------------
(* Claims about get_function, under Spec.                                  *)

\* the function regions that contain an address
Containing(ea) == {f \in funcs : f.start_ea <= ea /\ ea < f.end_ea}

\* the type database has a type at ea that the converter handles, or ea is
\* address 0 without one
Typable(ea) ==
  IF ea \in DOMAIN tinfo /\ tinfo[ea] # NoTinfo
  THEN ~ReachesComplex(tinfo[ea], {}, MaxDepth)
  ELSE ea = 0

\* this step is a call of get_function, with the arguments `last` notes
Called == last'.status # "none" /\ GetFunction(last'.arch, last'.address)

\* C1: while a caller holds the Function of a region, get_function for any
\* address of the region returns that very object: nothing is constructed
\* and the registry is left as it was.
C1_SameInstance ==
  [][Called =>
       \A f \in held :
         (\E r \in Containing(last'.address) : r.start_ea = f.address) =>
           /\ last'.status = "ok"
           /\ last'.func = f
           /\ ~last'.fresh
           /\ registry' = registry]_vars

C1_Witness ==
  /\ last.status = "ok"
  /\ ~last.fresh
  /\ last.washeld
  /\ last.address # last.func.address

\* C2 as stated: for an address inside a region get_function returns a
\* Function whose address is the region's start; for an address in no
\* region it fails with InvalidFunction.
C2_AlwaysResolves ==
  last.status # "none" =>
    IF Containing(last.address) # {}
    THEN /\ last.status = "ok"
         /\ \A r \in Containing(last.address) : last.func.address = r.start_ea
    ELSE last.status = "InvalidFunction" /\ last.func = NoFunction

\* C2 amended: for an address inside a region whose start address has a
\* type that converts, get_function returns a Function whose address is the
\* region's start, whichever address of the region was asked for, and the
\* registry keeps Functions under their start address only; when the type
\* does not convert, or no region contains the address, it fails with
\* InvalidFunction and returns no Function.
C2_Normalized ==
  /\ \A a \in DOMAIN registry :
       registry[a].address = a /\ \E r \in funcs : r.start_ea = a
  /\ last.status # "none" =>
       IF \E r \in Containing(last.address) : Typable(r.start_ea)
       THEN /\ last.status = "ok"
            /\ \A r \in Containing(last.address) : last.func.address = r.start_ea
       ELSE last.status = "InvalidFunction" /\ last.func = NoFunction

C2_Witness ==
  /\ last.status = "ok"
  /\ last.fresh
  /\ last.address > last.func.address
  /\ last.func.address \in DOMAIN registry
  /\ registry[last.func.address] = last.func

\* C7: get_function fails with InvalidFunction only, also when the type of
\* the start address does not convert, and a failed call changes neither
\* the registry nor the Functions that callers hold.
C7_FailsClean ==
  /\ [](last.status \in {"none", "ok", "InvalidFunction"})
  /\ [][(Called /\ last'.status # "ok") =>
          /\ last'.status = "InvalidFunction"
          /\ last'.func = NoFunction
          /\ registry' = registry
          /\ held' = held]_vars

C7_Witness ==
  /\ last.status = "InvalidFunction"
  /\ last.reason = "Could not assign type"
  /\ Containing(last.address) # {}
  /\ DOMAIN registry # {}

\* C8: the type of every Function that get_function returns or the
\* registry stores is a Function type.
C8_FunctionTyped ==
  \A f \in Live \cup ({last.func} \ {NoFunction}) :
    f.func_type.heap[f.func_type.root].kind = "Function"

\* C9: the registry alone keeps no Function alive (an entry no caller holds
\* can be purged); after the purge, get_function for the region constructs
\* and stores a new Function with the same start address; and no two live
\* Functions have the same address.
C9_WeakRegistry ==
  /\ [](\A f \in Live, g \in Live : f.address = g.address => f = g)
  /\ [](\A a \in DOMAIN registry : registry[a] \notin held => ENABLED Purge(a))
  /\ [][( /\ Called
            /\ last.status = "ok"
            /\ last.func.address \notin DOMAIN registry
            /\ \E r \in Containing(last'.address) :
                 r.start_ea = last.func.address ) =>
          /\ last'.status = "ok"
          /\ last'.fresh
          /\ last'.func.address = last.func.address
          /\ registry'[last.func.address] = last'.func]_vars

C9_Witness ==
  /\ last.status = "ok"
  /\ last.recreated
  /\ Live = {last.func}

\* C10 as stated: the Function get_function(arch, address) returns carries
\* the arch of that call.
C10_ArchOfCall == last.status = "ok" => last.func.arch = last.arch

\* C10 amended: the Function get_function(arch, address) returns carries
\* the arch of the call that constructed it: `arch` when this call
\* constructs it, and otherwise whatever the Function found in the registry
\* carries, which is returned as it is.
C10_ArchOfConstruction ==
  [][(Called /\ last'.status = "ok") =>
       IF last'.func.address \in DOMAIN registry
       THEN last'.func = registry[last'.func.address] /\ ~last'.fresh
       ELSE last'.func.arch = last'.arch /\ last'.fresh]_vars

C10_Witness ==
  /\ last.status = "ok"
  /\ ~last.fresh
  /\ last.washeld
  /\ last.func.arch # last.arch

====
